---- MODULE Spec2Model ----
(***************************************************************************)
(* Beam propagation of visualization_image.py: find_lazor_endpoint (the    *)
(* single-beam tracer) and the "Trace lazor beams" loop of                 *)
(* save_laser_image (the beam-set propagator).                             *)
(***************************************************************************)
EXTENDS Integers, Sequences, FiniteSets, Bags, TLC

VARIABLES
    x_size_grid,   \* point-space bound on x (len(grid) * 2)
    y_size_grid,   \* point-space bound on y (len(grid[0]) * 2)
    blocks,        \* lazor_grid.get_placed_blocks(): ordered placed blocks
    lasers,        \* lazor_grid.lasers: the Board's initial lasers
    lazors,        \* the worklist of save_laser_image
    arrows,        \* the ax.arrow calls made so far, in order
    pc,            \* "tracing": in the while loop; "saved": figure saved;
                   \* "hung": inside a find_lazor_endpoint call that never returns
    last,          \* history: the last loop iteration (beam, result, worklist before)
    anc,           \* history: per worklist entry, the beam states it descends from
                   \* (line) and the block whose interact spawned it (by, 0: none)
    cyc,           \* history: some beam state was queued again among its descendants
    altLazors,     \* a second worklist, emptied in an arbitrary order
    altArrows,     \* the arrows drawn from the second worklist, as a bag
    altOrder       \* history: the second worklist was emptied in another order

vars == <<x_size_grid, y_size_grid, blocks, lasers, lazors, arrows, pc,
          last, anc, cyc, altLazors, altArrows, altOrder>>

----------------------------------------------------------------------------
(* Bounds of the model *)

MaxCells == 2     \* the grid has 1..MaxCells rows and columns
MaxBlocks == 2    \* at most MaxBlocks placed blocks
MaxLasers == 2    \* at most MaxLasers initial lasers
MaxSegs == 20     \* the loop is followed for at most MaxSegs iterations

----------------------------------------------------------------------------
(* Blocks: the two capabilities the tracer consumes *)

\* the direction d mirrored on one axis
Flip(axis, d) == IF axis = "x" THEN <<0 - d[1], d[2]>> ELSE <<d[1], 0 - d[2]>>

\* block.within_boundaries(x, y)
within_boundaries(block, x, y) == <<x, y>> \in block.pts

\* block.interact(direction, position): nothing (Opaque), one bare pair
\* (Reflect) or a sequence of two pairs (Refract)
interact(block, direction, position) ==
    CASE block.kind = "Opaque"  -> [shape |-> "none", val |-> <<>>]
      [] block.kind = "Reflect" -> [shape |-> "pair", val |-> Flip(block.axis, direction)]
      [] block.kind = "Refract" -> [shape |-> "seq",
                                    val |-> <<direction, Flip(block.axis, direction)>>]

----------------------------------------------------------------------------
(* find_lazor_endpoint *)

\* variant: the loop condition with <= for <
InsideLoose(x, y, grid_size_x, grid_size_y) ==
    0 <= x /\ x <= grid_size_x /\ 0 <= y /\ y <= grid_size_y

\* the loop condition's strict bounds: "0 < x < grid_size_x and 0 < y < grid_size_y"
InsideExclusive(x, y, grid_size_x, grid_size_y) ==
    0 < x /\ x < grid_size_x /\ 0 < y /\ y < grid_size_y

\* variant: the inclusive bounds off by one
InsideBoundsWide(x, y, grid_size_x, grid_size_y) ==
    -1 <= x /\ x <= grid_size_x + 1 /\ -1 <= y /\ y <= grid_size_y + 1

\* "0 <= x <= grid_size_x and 0 <= y <= grid_size_y" (lines 45 and 149)
InsideInclusive(x, y, grid_size_x, grid_size_y) ==
    0 <= x /\ x <= grid_size_x /\ 0 <= y /\ y <= grid_size_y

\* variant: a sequence of pairs is returned in reverse order
NormalizeReversed(raw) ==
    IF raw.shape = "none" THEN <<>>
    ELSE IF raw.shape = "seq"
         THEN [i \in DOMAIN raw.val |-> raw.val[Len(raw.val) + 1 - i]]
    ELSE <<raw.val>>

\* "if new_directions: ... isinstance(new_directions[0], (list, tuple))"
Normalize(raw) ==
    IF raw.shape = "none" THEN <<>>
    ELSE IF raw.shape = "seq" THEN [i \in DOMAIN raw.val |-> raw.val[i]]
    ELSE <<raw.val>>

\* variant: the scan without the break, the last matching block interacts
RECURSIVE LastCollision(_, _, _, _)
LastCollision(blks, i, x, y) ==
    IF i < 1 THEN 0
    ELSE IF within_boundaries(blks[i], x, y) THEN i
    ELSE LastCollision(blks, i - 1, x, y)

\* "for block in blocks: if block.within_boundaries(x, y): ... break":
\* the index of the block that interacts, 0 when the scan finds none
RECURSIVE ScanFrom(_, _, _, _)
ScanFrom(blks, i, x, y) ==
    IF i > Len(blks) THEN 0
    ELSE IF within_boundaries(blks[i], x, y) THEN i
    ELSE ScanFrom(blks, i + 1, x, y)

ScanLast(blks, x, y) == LastCollision(blks, Len(blks), x, y)

FirstCollision(blks, x, y) == ScanFrom(blks, 1, x, y)

\* variant: the directions returned without the bounds test
CollisionUnchecked(block, vx, vy, x, y, grid_size_x, grid_size_y) ==
    Normalize(interact(block, <<vx, vy>>, <<x, y>>))

\* "if found_collision:": the directions returned at a collision, by the
\* position of the collision
CollisionResult(block, vx, vy, x, y, grid_size_x, grid_size_y) ==
    IF InsideInclusive(x, y, grid_size_x, grid_size_y)
    THEN Normalize(interact(block, <<vx, vy>>, <<x, y>>))
    ELSE <<>>

\* variant: the loop with the collision test made before the step
RECURSIVE TraceLoopTestFirst(_, _, _, _, _, _, _, _, _, _)
TraceLoopTestFirst(blks, x, y, vx, vy, grid_size_x, grid_size_y, is_first_turn, steps, tested) ==
    IF InsideExclusive(x, y, grid_size_x, grid_size_y) \/ is_first_turn
    THEN LET b == FirstCollision(blks, x, y)
         IN  IF b # 0
             THEN [x |-> x, y |-> y,
                   new_directions |-> CollisionResult(blks[b], vx, vy, x, y,
                                                      grid_size_x, grid_size_y),
                   steps |-> steps,
                   tested |-> tested \cup {<<x, y>>},
                   block |-> b]
             ELSE TraceLoopTestFirst(blks, x + vx, y + vy, vx, vy, grid_size_x,
                                     grid_size_y, FALSE, steps + 1,
                                     tested \cup {<<x, y>>})
    ELSE [x |-> x, y |-> y, new_directions |-> <<>>,
          steps |-> steps, tested |-> tested, block |-> 0]

\* variant: the loop with found_collision set only when the block returned a direction
RECURSIVE TraceLoopAbsorbedGoesOn(_, _, _, _, _, _, _, _, _, _)
TraceLoopAbsorbedGoesOn(blks, x, y, vx, vy, grid_size_x, grid_size_y, is_first_turn, steps, tested) ==
    IF InsideExclusive(x, y, grid_size_x, grid_size_y) \/ is_first_turn
    THEN LET nx == x + vx
             ny == y + vy
             b == FirstCollision(blks, nx, ny)
         IN  IF b # 0 /\ Normalize(interact(blks[b], <<vx, vy>>, <<nx, ny>>)) # <<>>
             THEN [x |-> nx, y |-> ny,
                   new_directions |-> CollisionResult(blks[b], vx, vy, nx, ny,
                                                      grid_size_x, grid_size_y),
                   steps |-> steps + 1,
                   tested |-> tested \cup {<<nx, ny>>},
                   block |-> b]
             ELSE TraceLoopAbsorbedGoesOn(blks, nx, ny, vx, vy, grid_size_x,
                                          grid_size_y, FALSE, steps + 1,
                                          tested \cup {<<nx, ny>>})
    ELSE [x |-> x, y |-> y, new_directions |-> <<>>,
          steps |-> steps, tested |-> tested, block |-> 0]

\* the while loop; steps counts the iterations, tested collects the points
\* the blocks were asked about, block is the index of the block that
\* interacted (0 for none)
RECURSIVE TraceLoop(_, _, _, _, _, _, _, _, _, _)
TraceLoop(blks, x, y, vx, vy, grid_size_x, grid_size_y, is_first_turn, steps, tested) ==
    IF InsideExclusive(x, y, grid_size_x, grid_size_y) \/ is_first_turn
    THEN LET nx == x + vx
             ny == y + vy
             b == FirstCollision(blks, nx, ny)
         IN  IF b # 0
             THEN [x |-> nx, y |-> ny,
                   new_directions |-> CollisionResult(blks[b], vx, vy, nx, ny,
                                                      grid_size_x, grid_size_y),
                   steps |-> steps + 1,
                   tested |-> tested \cup {<<nx, ny>>},
                   block |-> b]
             ELSE TraceLoop(blks, nx, ny, vx, vy, grid_size_x, grid_size_y,
                            FALSE, steps + 1, tested \cup {<<nx, ny>>})
    ELSE [x |-> x, y |-> y, new_directions |-> <<>>,
          steps |-> steps, tested |-> tested, block |-> 0]

\* variant: is_first_turn starts False
TraceNoFirstTurn(blks, x, y, vx, vy, grid_size_x, grid_size_y) ==
    TraceLoop(blks, x, y, vx, vy, grid_size_x, grid_size_y, FALSE, 0, {})

\* is_first_turn = True; new_directions = []; while ...
find_lazor_endpoint(blks, x, y, vx, vy, grid_size_x, grid_size_y) ==
    TraceLoop(blks, x, y, vx, vy, grid_size_x, grid_size_y, TRUE, 0, {})

\* the while loop never exits: with direction (0, 0) the position never
\* changes, so a start strictly inside the bounds that no block contains
\* satisfies the loop condition at every iteration
Diverges(blks, x, y, vx, vy, grid_size_x, grid_size_y) ==
    /\ vx = 0 /\ vy = 0
    /\ InsideExclusive(x, y, grid_size_x, grid_size_y)
    /\ FirstCollision(blks, x, y) = 0

----------------------------------------------------------------------------
(* save_laser_image: the "Trace lazor beams" loop *)

\* variant: lazors = lazor_grid.lasers, the worklist is the Board's own list
LasersAliased(board_lasers, worklist) == worklist

\* lazor_grid.lasers after the worklist changed: "lazors =
\* lazor_grid.lasers.copy()" made the worklist a list of its own
LasersOfBoard(board_lasers, worklist) == board_lasers

\* variant: lazors.pop(0)
PopFirst(worklist) == 1

\* the position lazors.pop() removes: the end of the list
PopIndex(worklist) == Len(worklist)

\* variant: a beam state already traced on the way to this one is not queued
UnseenOnly(new, line) == SelectSeq(new, LAMBDA b : b \notin line)

\* the spawned beams that are queued: all of them, the loop keeps no record
\* of the beam states it has traced
Accepted(new, line) == new

\* ax.arrow(start_x, start_y, end_x - start_x, end_y - start_y)
Arrow(start_x, start_y, end_x, end_y) ==
    <<start_x, start_y, end_x - start_x, end_y - start_y>>

\* the segment an arrow draws: (start_x, start_y, end_x, end_y)
SegmentOf(a) == <<a[1], a[2], a[1] + a[3], a[2] + a[4]>>

Segments(as) == [i \in DOMAIN as |-> SegmentOf(as[i])]

\* variant: the new beams start one step after the end point
NewBeamsStepped(end_x, end_y, vx, vy, new_dirs, gx, gy) ==
    IF InsideInclusive(end_x, end_y, gx, gy) /\ new_dirs # <<>>
    THEN [i \in DOMAIN new_dirs |-> <<end_x + new_dirs[i][1], end_y + new_dirs[i][2],
                                       new_dirs[i][1], new_dirs[i][2]>>]
    ELSE <<>>

\* variant: the append after the for loop, only the last direction is queued
NewBeamsLastOnly(end_x, end_y, vx, vy, new_dirs, gx, gy) ==
    IF InsideInclusive(end_x, end_y, gx, gy) /\ new_dirs # <<>>
    THEN << <<end_x, end_y, new_dirs[Len(new_dirs)][1], new_dirs[Len(new_dirs)][2]>> >>
    ELSE <<>>

\* the beams queued after a trace: "if 0 <= end_x <= x_size_grid and ...:
\* if new_dirs: for direction in new_dirs: lazors.append([...])"
NewBeams(end_x, end_y, vx, vy, new_dirs, gx, gy) ==
    IF InsideInclusive(end_x, end_y, gx, gy) /\ new_dirs # <<>>
    THEN [i \in DOMAIN new_dirs |-> <<end_x, end_y, new_dirs[i][1], new_dirs[i][2]>>]
    ELSE <<>>

\* variant: the beam is read but not removed
RemoveNone(s, i) == s

\* the worklist after lazors.pop() at index i
RemoveAt(s, i) == [j \in 1..(Len(s) - 1) |-> IF j < i THEN s[j] ELSE s[j + 1]]

\* variant: the new beams replace the worklist
QueueReplacing(rest, new) == IF new # <<>> THEN new ELSE rest

\* the worklist after the appends
Queue(rest, new) == rest \o new

----------------------------------------------------------------------------
(* The configurations explored *)

Sizes == {2 * c : c \in 1..MaxCells}

PtSets == { {<<2, 2>>}, {<<1, 1>>, <<3, 1>>}, {<<-1, -1>>, <<3, 1>>} }

BlockPool ==
    [pts : PtSets, kind : {"Reflect"}, axis : {"x", "y"}]
    \cup [pts : PtSets, kind : {"Opaque", "Refract"}, axis : {"x"}]

LaserPool == { <<0, 0, 1, 1>>, <<1, 1, 1, 0>>, <<0, 0, -1, -1>>,
               <<2, 1, 1, 0>>, <<2, 2, 1, -1>>, <<3, 3, 1, 1>>, <<0, 0, 1, 0>> }

\* lasers for the runs with the direction (0, 0)
ZeroLaserPool == { <<0, 0, 0, 0>>, <<1, 1, 0, 0>>, <<2, 2, 0, 0>>, <<0, 0, 1, 1>> }

SeqsUpTo(S, n) == UNION {[1..k -> S] : k \in 0..n}

NoLast == [beam |-> <<0, 0, 0, 0>>, by |-> 0,
           res |-> [x |-> 0, y |-> 0, new_directions |-> <<>>,
                    steps |-> 0, tested |-> {}, block |-> 0],
           before |-> <<>>]

InitFrom(pool) ==
    /\ x_size_grid \in Sizes
    /\ y_size_grid \in Sizes
    /\ blocks \in SeqsUpTo(BlockPool, MaxBlocks)
    /\ lasers \in SeqsUpTo(pool, MaxLasers) \ {<<>>}
    /\ lazors = lasers                 \* lazors = lazor_grid.lasers.copy()
    /\ arrows = <<>>
    /\ pc = "tracing"
    /\ last = NoLast
    /\ anc = [i \in DOMAIN lasers |-> [line |-> {}, by |-> 0]]
    /\ cyc = FALSE
    /\ altLazors = lasers
    /\ altArrows = EmptyBag
    /\ altOrder = FALSE

Init == InitFrom(LaserPool)

\* the Board holds lasers with the direction (0, 0)
InitZero == InitFrom(ZeroLaserPool)

\* one iteration of "while lazors:"
TraceBeam ==
    /\ pc = "tracing"
    /\ lazors # <<>>
    /\ Len(arrows) < MaxSegs
    /\ ~Diverges(blocks, lazors[PopIndex(lazors)][1], lazors[PopIndex(lazors)][2],
                  lazors[PopIndex(lazors)][3], lazors[PopIndex(lazors)][4],
                  x_size_grid, y_size_grid)
    /\ LET n == PopIndex(lazors)
           beam == lazors[n]                    \* lazors.pop()
           res == find_lazor_endpoint(blocks, beam[1], beam[2], beam[3], beam[4],
                                      x_size_grid, y_size_grid)
           new == NewBeams(res.x, res.y, beam[3], beam[4], res.new_directions,
                           x_size_grid, y_size_grid)
           line == anc[n].line \cup {beam}
           queued == Accepted(new, line)
       IN  /\ arrows' = Append(arrows, Arrow(beam[1], beam[2], res.x, res.y))
           /\ lazors' = Queue(RemoveAt(lazors, n), queued)
           /\ last' = [beam |-> beam, by |-> anc[n].by, res |-> res, before |-> lazors]
           /\ anc' = RemoveAt(anc, n)
                        \o [i \in DOMAIN queued |-> [line |-> line, by |-> res.block]]
           /\ cyc' = (cyc \/ \E i \in DOMAIN new : new[i] \in line)
    /\ lasers' = LasersOfBoard(lasers, lazors')
    /\ UNCHANGED <<x_size_grid, y_size_grid, blocks, pc,
                   altLazors, altArrows, altOrder>>

\* lazors.pop() followed by a find_lazor_endpoint call that never returns
TraceHangs ==
    /\ pc = "tracing"
    /\ lazors # <<>>
    /\ LET n == PopIndex(lazors)
           beam == lazors[n]
       IN  /\ Diverges(blocks, beam[1], beam[2], beam[3], beam[4],
                       x_size_grid, y_size_grid)
           /\ lazors' = RemoveAt(lazors, n)
           /\ anc' = RemoveAt(anc, n)
    /\ pc' = "hung"
    /\ lasers' = LasersOfBoard(lasers, lazors')
    /\ UNCHANGED <<x_size_grid, y_size_grid, blocks, arrows, last, cyc,
                   altLazors, altArrows, altOrder>>

\* the loop ends: ax.axis("off") ... plt.savefig(filename)
SaveFigure ==
    /\ pc = "tracing"
    /\ lazors = <<>>
    /\ pc' = "saved"
    /\ UNCHANGED <<x_size_grid, y_size_grid, blocks, lasers, lazors, arrows,
                   last, anc, cyc, altLazors, altArrows, altOrder>>

\* the same loop body with the beam removed from any position of the worklist
TraceAny ==
    /\ pc = "saved"
    /\ altLazors # <<>>
    /\ BagCardinality(altArrows) < MaxSegs
    /\ \E i \in DOMAIN altLazors :
          LET beam == altLazors[i]
              res == find_lazor_endpoint(blocks, beam[1], beam[2], beam[3], beam[4],
                                         x_size_grid, y_size_grid)
              new == NewBeams(res.x, res.y, beam[3], beam[4], res.new_directions,
                              x_size_grid, y_size_grid)
          IN  /\ altArrows' = altArrows (+) SetToBag({Arrow(beam[1], beam[2], res.x, res.y)})
              /\ altLazors' = Queue(RemoveAt(altLazors, i), new)
              /\ altOrder' = (altOrder \/ i # Len(altLazors))
    /\ UNCHANGED <<x_size_grid, y_size_grid, blocks, lasers, lazors, arrows, pc,
                   last, anc, cyc>>

\* the runs followed for termination: square grids, one initial laser
InitSquare ==
    /\ Init
    /\ x_size_grid = y_size_grid
    /\ Len(lasers) = 1

Next == TraceBeam \/ SaveFigure

Spec == Init /\ [][Next]_vars

\* the loop is never suspended: single-threaded, synchronous
FairSpec == InitSquare /\ [][Next]_vars /\ WF_vars(Next)

NextAny == TraceBeam \/ SaveFigure \/ TraceAny

SpecAny == Init /\ [][NextAny]_vars

NextZero == TraceBeam \/ SaveFigure \/ TraceHangs

SpecZero == InitZero /\ [][NextZero]_vars

----------------------------------------------------------------------------
(* Vocabulary of the properties *)

\* some beam has been traced, so last describes a loop iteration
Traced == arrows # <<>>

Inclusive(p) ==
    0 <= p[1] /\ p[1] <= x_size_grid /\ 0 <= p[2] /\ p[2] <= y_size_grid

StrictlyInside(p) ==
    0 < p[1] /\ p[1] < x_size_grid /\ 0 < p[2] /\ p[2] < y_size_grid

Start(beam) == <<beam[1], beam[2]>>
Dir(beam) == <<beam[3], beam[4]>>
PathPt(beam, k) == <<beam[1] + k * beam[3], beam[2] + k * beam[4]>>

LastEnd == <<last.res.x, last.res.y>>
LastDirs == last.res.new_directions

\* the blocks whose boundary contains p
BlocksAt(p) == {i \in DOMAIN blocks : p \in blocks[i].pts}

\* the worklist entries left of the popped one, and the ones pushed after it
KeptOfLast == SubSeq(last.before, 1, Len(last.before) - 1)
PushedByLast == SubSeq(lazors, Len(last.before), Len(lazors))

\* the recorded segments (start_x, start_y, end_x, end_y), in recording order
Recorded == Segments(arrows)

SeqToBag(q) ==
    [e \in {q[i] : i \in DOMAIN q} |-> Cardinality({i \in DOMAIN q : q[i] = e})]

ScenarioC1 ==
    /\ x_size_grid = 4
    /\ y_size_grid = 4
    /\ lasers = << <<0, 0, 1, 1>> >>
    /\ blocks = << [pts |-> {<<2, 2>>}, kind |-> "Reflect", axis |-> "y"] >>

----------------------------------------------------------------------------
(* C1 *)

\* C1 as stated: in the scenario (4 x 4, laser (0,0,1,1), a Reflect block at
\* (2,2) sending (1,1) to (1,-1)) the run ends with exactly the segments
\* (0,0)->(2,2) and (2,2)->(2,0) and an empty worklist.
C1_AsStated ==
    (ScenarioC1 /\ pc = "saved") =>
        /\ Recorded = << <<0, 0, 2, 2>>, <<2, 2, 2, 0>> >>
        /\ lazors = <<>>

\* C1, amended: in the scenario the run records exactly two segments, first
\* (0,0)->(2,2) and then (2,2)->(4,0) (the reflected beam keeps vx = 1 and
\* reaches the corner of the top edge), and no beam is queued once the second
\* segment is recorded.
C1_EndToEnd ==
    ScenarioC1 =>
        /\ (pc = "saved" => Recorded = << <<0, 0, 2, 2>>, <<2, 2, 4, 0>> >>)
        /\ (Len(arrows) >= 2 => lazors = <<>>)
        /\ Len(arrows) <= 2

C1_Witness ==
    ScenarioC1 /\ pc = "saved" /\ Len(arrows) = 2 /\ lazors = <<>>

----------------------------------------------------------------------------
(* C2 *)

\* C2: termination. Every run in which no beam state is queued again among
\* its own descendants reaches the end of the loop with an empty worklist:
\* eventually the figure is saved, or a repeated beam state has shown the
\* block set to be cyclic.
C2_Termination == <>((pc = "saved" /\ lazors = <<>>) \/ cyc)

C2_Witness ==
    /\ pc = "saved" /\ lazors = <<>> /\ ~cyc
    /\ Len(arrows) >= 5
    /\ \E i \in DOMAIN blocks : blocks[i].kind = "Refract"

----------------------------------------------------------------------------
(* C3 *)

LasersInside == \A i \in DOMAIN lasers : Inclusive(Start(lasers[i]))

\* C3: bounds containment. When the initial lasers start inside the inclusive
\* bounds, the end point of the traced segment is inside the inclusive
\* bounds, or it is the first point outside them: the point before it on the
\* path is inside and it lies at most one step beyond a boundary. This holds
\* of every recorded segment.
C3_BoundsContainment ==
    LasersInside =>
        /\ Traced =>
              \/ Inclusive(LastEnd)
              \/ /\ Inclusive(<<last.res.x - last.beam[3], last.res.y - last.beam[4]>>)
                 /\ last.res.steps = 1
        /\ \A i \in DOMAIN arrows :
              /\ -1 <= Recorded[i][3] /\ Recorded[i][3] <= x_size_grid + 1
              /\ -1 <= Recorded[i][4] /\ Recorded[i][4] <= y_size_grid + 1

C3_Witness ==
    /\ LasersInside /\ Traced
    /\ ~Inclusive(LastEnd)
    /\ last.by # 0

----------------------------------------------------------------------------
(* C4 *)

OnBoundary(p) == Inclusive(p) /\ ~StrictlyInside(p)

\* C4: first-step guarantee. A trace started on a boundary with a direction
\* whose first step leaves the inclusive bounds takes exactly one step and
\* returns the start point plus the direction, with no outgoing direction,
\* whether or not a block contains that point.
C4_FirstStep ==
    (Traced /\ OnBoundary(Start(last.beam)) /\ Dir(last.beam) # <<0, 0>>
            /\ ~Inclusive(PathPt(last.beam, 1))) =>
        /\ last.res.steps = 1
        /\ LastEnd = PathPt(last.beam, 1)
        /\ LastDirs = <<>>
        /\ LastEnd # Start(last.beam)
        /\ arrows[Len(arrows)][3] # 0 \/ arrows[Len(arrows)][4] # 0

C4_Witness ==
    /\ Traced /\ OnBoundary(Start(last.beam))
    /\ ~Inclusive(PathPt(last.beam, 1))
    /\ BlocksAt(PathPt(last.beam, 1)) # {}
    /\ last.res.steps = 1

----------------------------------------------------------------------------
(* C5 *)

\* the least element of a non-empty set of block indices
Least(S) == CHOOSE i \in S : \A j \in S : i <= j

\* C5: first collision wins. When the point the trace stopped at lies in the
\* boundaries of two or more placed blocks, the block asked to interact is
\* the earliest of them in Board order, and the returned directions are that
\* block's alone.
C5_CollisionOrdering ==
    (Traced /\ Cardinality(BlocksAt(LastEnd)) >= 2) =>
        /\ last.res.block \in BlocksAt(LastEnd)
        /\ \A j \in BlocksAt(LastEnd) : last.res.block <= j
        /\ Inclusive(LastEnd) =>
              LastDirs = Normalize(interact(blocks[Least(BlocksAt(LastEnd))],
                                            Dir(last.beam), LastEnd))

C5_Witness ==
    /\ Traced /\ Inclusive(LastEnd)
    /\ BlocksAt(LastEnd) = {1, 2}
    /\ blocks[1].kind = "Opaque" /\ blocks[2].kind = "Refract"
    /\ LastDirs = <<>>

----------------------------------------------------------------------------
(* C6 *)

\* C6: out-of-bounds collision. A trace that detected a collision stopped at
\* the collision point p, a point of the interacting block. If p is outside
\* the inclusive bounds the trace returns no direction whatever the block
\* returned and nothing is queued; if p is inside them (a boundary included)
\* it returns the directions the block returned.
C6_OutOfBoundsCollision ==
    (Traced /\ last.res.block # 0) =>
        /\ LastEnd \in blocks[last.res.block].pts
        /\ LastEnd = PathPt(last.beam, last.res.steps)
        /\ ~Inclusive(LastEnd) => (LastDirs = <<>> /\ lazors = KeptOfLast)
        /\ Inclusive(LastEnd) =>
              LastDirs = Normalize(interact(blocks[last.res.block],
                                            Dir(last.beam), LastEnd))

C6_Witness ==
    /\ Traced /\ last.res.block # 0
    /\ ~Inclusive(LastEnd)
    /\ blocks[last.res.block].kind = "Refract"
    /\ LastDirs = <<>>

C6_WitnessOnBoundary ==
    /\ Traced /\ last.res.block # 0
    /\ OnBoundary(LastEnd)
    /\ Len(LastDirs) = 2

----------------------------------------------------------------------------
(* C7 *)

\* C7: spawning rule. After an iteration the worklist is the entries that
\* were below the popped one followed by the pushed beams; beams are pushed
\* if and only if the end point is inside the inclusive bounds and the trace
\* returned directions, and then there is exactly one per direction, in
\* order, each starting at the end point.
C7_SpawningRule ==
    Traced =>
        /\ Len(lazors) >= Len(last.before) - 1
        /\ SubSeq(lazors, 1, Len(last.before) - 1) = KeptOfLast
        /\ (PushedByLast # <<>>) <=> (Inclusive(LastEnd) /\ LastDirs # <<>>)
        /\ PushedByLast # <<>> =>
              /\ Len(PushedByLast) = Len(LastDirs)
              /\ \A i \in DOMAIN LastDirs :
                    PushedByLast[i] = <<last.res.x, last.res.y,
                                        LastDirs[i][1], LastDirs[i][2]>>

C7_Witness ==
    /\ Traced /\ Len(LastDirs) = 2 /\ Len(PushedByLast) = 2
    /\ Len(last.before) >= 2

----------------------------------------------------------------------------
(* C8 *)

\* the k-th point of the path is reached: the points before it are strictly
\* inside the bounds and in no block (the first step is always taken)
Reaches(beam, k) ==
    \A j \in 1..(k - 1) :
        StrictlyInside(PathPt(beam, j)) /\ BlocksAt(PathPt(beam, j)) = {}

\* the longest path followed in the grids explored
MaxPath == x_size_grid + y_size_grid + 2

\* C8: absorption. When the first block on the beam's path, met inside the
\* inclusive bounds, returns nothing from interact, the trace ends at that
\* point with no outgoing direction, nothing is pushed, and the worklist is
\* one entry shorter than before the iteration.
C8_Absorption ==
    Traced =>
        \A k \in 1..MaxPath :
            LET p == PathPt(last.beam, k) IN
            (/\ Reaches(last.beam, k)
             /\ BlocksAt(p) # {}
             /\ Inclusive(p)
             /\ interact(blocks[Least(BlocksAt(p))], Dir(last.beam), p).shape = "none") =>
                /\ LastEnd = p
                /\ LastDirs = <<>>
                /\ lazors = KeptOfLast
                /\ Len(lazors) = Len(last.before) - 1

C8_Witness ==
    /\ Traced /\ last.res.block # 0
    /\ blocks[last.res.block].kind = "Opaque"
    /\ Inclusive(LastEnd)
    /\ last.res.steps >= 2
    /\ Len(last.before) = 2 /\ Len(lazors) = 1

----------------------------------------------------------------------------
(* C9 *)

BothEmptied == pc = "saved" /\ lazors = <<>> /\ altLazors = <<>>

\* C9: order independence. When the worklist emptied from the end and the
\* worklist emptied in an arbitrary order have both run empty, they have
\* recorded the same segments with the same multiplicities.
C9_OrderIndependence ==
    BothEmptied => SeqToBag(arrows) = altArrows

C9_Witness ==
    /\ BothEmptied /\ altOrder
    /\ Len(arrows) >= 4
    /\ SeqToBag(arrows) = altArrows

----------------------------------------------------------------------------
(* C10 *)

\* the traced beam was spawned by a Reflect block, which returned one direction
SpawnedByReflect == Traced /\ last.by # 0 /\ blocks[last.by].kind = "Reflect"

\* C10: no self-collision. Re-tracing from the collision point of a Reflect
\* block with the direction it returned takes a step first: the spawn point
\* is never tested for a collision and is never the end point of the
\* re-trace.
C10_NoSelfCollision ==
    SpawnedByReflect =>
        /\ last.res.steps >= 1
        /\ Start(last.beam) \notin last.res.tested
        /\ LastEnd # Start(last.beam)

C10_Witness ==
    /\ SpawnedByReflect
    /\ Start(last.beam) \in blocks[last.by].pts
    /\ last.res.block = last.by

----------------------------------------------------------------------------
(* C11 *)

\* C11: the board is not mutated. No step of a propagation run (a pop, a
\* trace, the pushes, the end of the loop) changes the Board's initial lasers
\* or its ordered placed blocks; the worklist changes without them.
C11_BoardNotMutated == [][lasers' = lasers /\ blocks' = blocks]_vars

C11_Witness ==
    /\ Len(arrows) >= 2
    /\ Len(lasers) = 2
    /\ lazors # <<>>
    /\ lazors # lasers
    /\ \E i \in DOMAIN lazors : \A j \in DOMAIN lasers : lazors[i] # lasers[j]

----------------------------------------------------------------------------
(* C12 *)

\* C12 as stated: a trace called with the direction (0, 0) is rejected at
\* entry: it takes no step, asks no block, returns no end point (so no arrow
\* is drawn for it) and the call does not run for ever.
C12_ZeroDirectionRejected ==
    /\ pc # "hung"
    /\ (Traced /\ Dir(last.beam) = <<0, 0>>) =>
          /\ last.res.steps = 0
          /\ last.res.tested = {}
          /\ last.res.block = 0

----------------------------------------------------------------------------
(* C13 *)

\* C13: end point without collision. If the points of the path up to the
\* first one that is not strictly inside the exclusive bounds (the k-th,
\* k >= 1) lie in no block, the trace takes k steps and returns that point
\* with no outgoing direction.
C13_EndPointNoCollision ==
    Traced =>
        \A k \in 1..MaxPath :
            (/\ \A j \in 1..(k - 1) : StrictlyInside(PathPt(last.beam, j))
             /\ ~StrictlyInside(PathPt(last.beam, k))
             /\ \A j \in 1..k : BlocksAt(PathPt(last.beam, j)) = {}) =>
                /\ LastEnd = PathPt(last.beam, k)
                /\ LastDirs = <<>>
                /\ last.res.steps = k
                /\ last.res.block = 0

\* a beam that travels along a boundary line stops at its first point
C13_Witness ==
    /\ Traced /\ last.res.block = 0
    /\ OnBoundary(Start(last.beam)) /\ OnBoundary(LastEnd)
    /\ LastEnd = PathPt(last.beam, 1)
    /\ x_size_grid = 4

\* a beam that crosses the grid stops on the boundary it reaches
C13_WitnessCrossing ==
    /\ Traced /\ last.res.block = 0
    /\ last.res.steps = 4
    /\ OnBoundary(LastEnd)

----------------------------------------------------------------------------
(* C14 *)

MaxOf(a, b) == IF a >= b THEN a ELSE b

UnitDirection(d) ==
    d[1] \in {-1, 0, 1} /\ d[2] \in {-1, 0, 1} /\ d # <<0, 0>>

\* C14: a trace with a unit direction, not (0, 0), started inside the
\* inclusive bounds returns after at least 1 and at most
\* max(1, width, height) steps, whatever blocks are placed.
C14_TraceSteps ==
    (Traced /\ UnitDirection(Dir(last.beam)) /\ Inclusive(Start(last.beam))) =>
        /\ last.res.steps >= 1
        /\ last.res.steps <= MaxOf(1, MaxOf(x_size_grid, y_size_grid))
        /\ LastEnd = PathPt(last.beam, last.res.steps)

C14_Witness ==
    /\ Traced /\ Inclusive(Start(last.beam))
    /\ last.res.steps = MaxOf(x_size_grid, y_size_grid)
    /\ last.res.steps >= 4
    /\ blocks # <<>>

----------------------------------------------------------------------------
(* C15 *)

RecStart(i) == <<Recorded[i][1], Recorded[i][2]>>
RecEnd(i) == <<Recorded[i][3], Recorded[i][4]>>

StartsAtLaser(p) == \E j \in DOMAIN lasers : Start(lasers[j]) = p

\* p is the end point of one of the first n recorded segments, which ended
\* in a collision inside the inclusive bounds
EndOfCollisionBefore(p, n) ==
    \E j \in 1..n : RecEnd(j) = p /\ Inclusive(p) /\ BlocksAt(p) # {}

\* C15: segment continuity. Every beam state in the worklist and every
\* recorded segment starts at the position of an initial laser or at the end
\* point of an earlier recorded segment that ended in a collision inside the
\* inclusive bounds; when the initial lasers start inside the bounds, so does
\* every traced beam; every step that changes the worklist records exactly
\* one segment, the one of the popped beam state.
C15_SegmentContinuity ==
    /\ [](/\ \A i \in DOMAIN lazors :
                \/ StartsAtLaser(Start(lazors[i]))
                \/ EndOfCollisionBefore(Start(lazors[i]), Len(arrows))
          /\ \A i \in DOMAIN arrows :
                \/ StartsAtLaser(RecStart(i))
                \/ EndOfCollisionBefore(RecStart(i), i - 1)
          /\ LasersInside =>
                /\ \A i \in DOMAIN arrows : Inclusive(RecStart(i))
                /\ \A i \in DOMAIN lazors : Inclusive(Start(lazors[i]))
          /\ Traced =>
                /\ RecStart(Len(arrows)) = Start(last.beam)
                /\ RecEnd(Len(arrows)) = LastEnd)
    /\ [][lazors' # lazors =>
            /\ Len(arrows') = Len(arrows) + 1
            /\ SubSeq(arrows', 1, Len(arrows)) = arrows]_vars

C15_Witness ==
    /\ Len(arrows) >= 3
    /\ ~StartsAtLaser(RecStart(Len(arrows)))
    /\ EndOfCollisionBefore(RecStart(Len(arrows)), Len(arrows) - 1)
    /\ \E i \in DOMAIN lazors : ~StartsAtLaser(Start(lazors[i]))

----------------------------------------------------------------------------
(* C16 *)

\* C16: no termination on a beam cycle. Once a beam state has been queued
\* again among its own descendants, the worklist is never empty and the loop
\* is never left: the repeated state is queued and traced like any other.
C16_CycleNeverEnds ==
    cyc => (lazors # <<>> /\ pc = "tracing")

\* two reflecting points send the beam back and forth: the same arrow is
\* drawn again and again
C16_Witness ==
    /\ cyc
    /\ Len(arrows) >= 10
    /\ \A i \in DOMAIN arrows : Inclusive(RecEnd(i))
    /\ arrows[Len(arrows)] = arrows[Len(arrows) - 2]
    /\ arrows[Len(arrows)] = arrows[Len(arrows) - 4]
    /\ \A i \in DOMAIN blocks : blocks[i].kind = "Reflect"

----------------------------------------------------------------------------
(* C17 *)

\* C17: normalisation. At a collision inside the inclusive bounds, a block
\* result that is a single pair is returned as the one-element sequence of
\* that pair, a sequence of pairs is returned with the same pairs in the same
\* order, and an empty result gives no outgoing direction.
C17_Normalisation ==
    (Traced /\ last.res.block # 0 /\ Inclusive(LastEnd)) =>
        LET raw == interact(blocks[last.res.block], Dir(last.beam), LastEnd) IN
        /\ raw.shape = "none" => LastDirs = <<>>
        /\ raw.shape = "pair" =>
              /\ Len(LastDirs) = 1
              /\ LastDirs[1] = raw.val
        /\ raw.shape = "seq" =>
              /\ Len(LastDirs) = Len(raw.val)
              /\ \A i \in 1..Len(raw.val) : LastDirs[i] = raw.val[i]

C17_Witness ==
    /\ Traced /\ last.res.block # 0 /\ Inclusive(LastEnd)
    /\ blocks[last.res.block].kind = "Refract"
    /\ Len(LastDirs) = 2 /\ LastDirs[1] # LastDirs[2]
    /\ LastDirs[1] = Dir(last.beam)

C17_WitnessPair ==
    /\ Traced /\ last.res.block # 0 /\ Inclusive(LastEnd)
    /\ blocks[last.res.block].kind = "Reflect"
    /\ Len(LastDirs) = 1

----------------------------------------------------------------------------
(* C18 *)

\* C18: LIFO order. Every iteration traces the beam state at the end of the
\* worklist, where beams are pushed, and leaves the entries before it in
\* place, so a pushed beam and everything it spawns are traced before any
\* entry that was pending; the first beam traced is the Board's last laser.
C18_LIFO ==
    /\ [][arrows' # arrows =>
            /\ last'.beam = lazors[Len(lazors)]
            /\ arrows'[Len(arrows')] = Arrow(lazors[Len(lazors)][1], lazors[Len(lazors)][2],
                                             last'.res.x, last'.res.y)
            /\ Len(lazors') >= Len(lazors) - 1
            /\ SubSeq(lazors', 1, Len(lazors) - 1) = SubSeq(lazors, 1, Len(lazors) - 1)]_vars
    /\ [](Len(arrows) = 1 => last.beam = lasers[Len(lasers)])

\* of the two directions of a split the last is being traced while the
\* first is still pending below what the last one spawned
C18_Witness ==
    /\ Traced /\ last.by # 0
    /\ Len(last.before) >= 2
    /\ Start(last.before[Len(last.before) - 1]) = Start(last.beam)
    /\ last.before[Len(last.before) - 1] # last.beam
    /\ Len(lazors) >= Len(last.before)

====
